---- MODULE Spec2Model ----
(***************************************************************************)
(* Model of the chat relay server (src/unnamed/part_000): the socket.io    *)
(* event handlers, the presence sets connectedUsers / typingUsers, the     *)
(* SQLite messages table and the asynchronous database calls in flight.    *)
(*                                                                         *)
(* One step of the model is one callback of the Node event loop run to     *)
(* completion: a socket event handler, or the completion callback of a     *)
(* database call.  `last` is the callback that ran in the step and `out`   *)
(* the sequence of emissions it made, each with the set of sessions that   *)
(* receive it.  Both are history variables; a specification records the    *)
(* callbacks of the kinds in `observed` and runs all the others unrecorded,*)
(* so that every interleaving is explored whatever is recorded.            *)
(***************************************************************************)
EXTENDS Integers, Sequences, FiniteSets, Bags, TLC

VARIABLES
    sockets,         \* per session slot: is a socket connected, socket.username
    connectedUsers,  \* const connectedUsers = new Set()
    typingUsers,     \* const typingUsers = new Set()
    db,              \* rows of the messages table, in insertion order
    pending,         \* bag of the database calls in flight
    crashed,         \* the process ended: an uncaught exception, or exit(1) at startup
    env,             \* process.env.OPENAI_API_KEY is set, require('openai') worked,
                     \* server.listen was called
    observed,        \* the kinds of callback the specification at hand records
    last,            \* the recorded callback that ran in the last step, if any
    out              \* the emissions of that callback

vars == <<sockets, connectedUsers, typingUsers, db, pending, crashed, env, observed, last, out>>

----------------------------------------------------------------------------
(* Bounds of the model.                                                    *)

\* Number of concurrent connections.
NSessions == 2
\* Rows inserted after startup, counting the inserts still in flight.
MaxInserts == 2
\* Database calls in flight at the same time.
MaxPending == 2

SessionNames == <<"A", "B", "C", "D">>
Sessions == {SessionNames[i] : i \in 1..NSessions}

----------------------------------------------------------------------------
(* Values.  A JavaScript string is modelled by its content tag and its     *)
(* length; `undefined` is a value of length 0 so that the truthiness test  *)
(* of the code is one comparison.                                          *)

Str(tag, n) == [s |-> tag, len |-> n]
Undefined == Str("undefined", 0)
EmptyStr == Str("", 0)
Falsy(x) == x.len = 0

Alice == Str("alice", 5)
Bob == Str("bob", 3)
Long50 == Str("u50", 50)
Long51 == Str("u51", 51)
Hi == Str("hi", 2)
Text255 == Str("t255", 255)
Text256 == Str("t256", 256)

(* Timestamps.  A client sends an ISO-8601 string (what socket.io makes of *)
(* the client's Date), a number of epoch milliseconds, or something that   *)
(* does not parse.  `new Date(x)` yields a time value or NaN;              *)
(* toISOString() of a time value is the canonical ISO string.  Stored      *)
(* timestamps are canonical ISO strings, whose text order is time order.   *)
Iso(t) == [kind |-> "iso", t |-> t]
Ms(t) == [kind |-> "ms", t |-> t]
BadTs == [kind |-> "bad", t |-> 0]
NaN == -1
NewDate(ts) == IF ts.kind = "bad" THEN NaN ELSE ts.t
ToISOString(d) == Iso(d)

\* Rows the database file holds at startup: none, or SeedRows rows of
\* earlier runs.
SeedRows == 20
SeedDb == [i \in 1..SeedRows |->
            [id |-> i, username |-> Alice, text |-> Hi, timestamp |-> Iso(i)]]
\* Instants the clocks of the clients and of the server show.
Instants == {SeedRows + 1, SeedRows + 2}

NoData == [none |-> TRUE]
NoPayload == [defined |-> FALSE]
\* A `message` payload; a client may add any field, such as an id of its own.
Msg(u, x, ts) == [defined |-> TRUE, id |-> 1, username |-> u, text |-> x, timestamp |-> ts]
Named(u) == [defined |-> TRUE, username |-> u]

\* Payloads of `message` events: two accepted ones with different clock
\* readings (one at both length limits, its timestamp a number), one whose
\* timestamp does not parse, one for each way of being rejected, and none.
MessagePayloads ==
    { Msg(Alice, Hi, Iso(SeedRows + 2)),
      Msg(Long50, Text255, Ms(SeedRows + 1)),
      Msg(Alice, Hi, BadTs),
      Msg(EmptyStr, Hi, Iso(SeedRows + 1)), Msg(Alice, EmptyStr, Iso(SeedRows + 1)),
      Msg(Long51, Hi, Iso(SeedRows + 1)), Msg(Alice, Text256, Iso(SeedRows + 1)),
      NoPayload }
\* Payloads of `userJoined` events; the server does not look at the username.
JoinPayloads == { Named(Alice), Named(Bob), Named(EmptyStr), NoPayload }
\* Payloads of `typing`, `stopTyping` and `userLeft` events.
NamePayloads == { Named(Alice), Named(Bob), Named(EmptyStr), NoPayload }

----------------------------------------------------------------------------
(* Sessions and emissions.                                                 *)

Closed == [open |-> FALSE, username |-> Undefined]
Fresh == [open |-> TRUE, username |-> Undefined]

Open(socks) == {s \in Sessions : socks[s].open}

\* io.emit(...): every connected socket.
All(socks) == Open(socks)
\* socket.broadcast.emit(...): every connected socket but the sender.
Others(socks, s) == Open(socks) \ {s}
\* socket.emit(...): the sender, while its socket is connected.
Only(socks, s) == Open(socks) \cap {s}

Emit(ev, to, data) == [ev |-> ev, to |-> to, data |-> data]
Event(type, s, data, ok) == [type |-> type, sock |-> s, data |-> data, ok |-> ok]

\* What a step leaves in the history variables: the callback and what it
\* emitted when its kind is observed, nothing otherwise.
Quiet == Event("other", "none", NoData, TRUE)
Record(e, emissions) ==
    /\ last' = IF e.type \in observed THEN e ELSE Quiet
    /\ out' = IF e.type \in observed THEN emissions ELSE <<>>
    /\ UNCHANGED observed

\* The emissions of the last step that session s receives.
Received(s) == SelectSeq(out, LAMBDA e : s \in e.to)

----------------------------------------------------------------------------
(* The messages table.                                                     *)

\* INTEGER PRIMARY KEY AUTOINCREMENT: one more than the largest id the
\* table ever held (rows are never deleted), 1 on a table that never held one.
RECURSIVE MaxIdUpTo(_, _)
MaxIdUpTo(rows, n) ==
    IF n = 0 THEN 0
    ELSE LET m == MaxIdUpTo(rows, n - 1) IN IF rows[n].id > m THEN rows[n].id ELSE m
MaxId(rows) == MaxIdUpTo(rows, Len(rows))
LastID(rows) == MaxId(rows) + 1

\* INSERT INTO messages (username, text, timestamp) VALUES (?, ?, ?)
Insert(rows, u, x, ts) ==
    Append(rows, [id |-> LastID(rows), username |-> u, text |-> x, timestamp |-> ts])

\* ORDER BY timestamp DESC.  SQL leaves the order of rows with equal
\* timestamps open; tie is the order the engine happens to produce for
\* them, by ascending or by descending id.
TieOrders == {"asc", "desc"}
Before(r, q, tie) ==
    \/ r.timestamp.t > q.timestamp.t
    \/ /\ r.timestamp.t = q.timestamp.t
       /\ IF tie = "asc" THEN r.id < q.id ELSE r.id > q.id
\* The row of q[1..n] that comes first.
RECURSIVE First(_, _, _)
First(q, n, tie) ==
    IF n = 1 THEN q[1]
    ELSE LET r == First(q, n - 1, tie) IN IF Before(q[n], r, tie) THEN q[n] ELSE r
RECURSIVE OrderByTimestampDesc(_, _, _)
OrderByTimestampDesc(q, limit, tie) ==
    IF limit = 0 \/ q = <<>> THEN <<>>
    ELSE LET r == First(q, Len(q), tie)
         IN  <<r>> \o OrderByTimestampDesc(SelectSeq(q, LAMBDA x : x # r), limit - 1, tie)

Reverse(q) == [i \in 1..Len(q) |-> q[Len(q) + 1 - i]]

HistoryLimit == 20
\* SELECT * FROM messages ORDER BY timestamp DESC LIMIT 20, then .reverse()
History(rows, tie) == Reverse(OrderByTimestampDesc(rows, HistoryLimit, tie))

----------------------------------------------------------------------------
(* Validation of a `message` payload.                                      *)

MaxUsername == 50
MaxText == 255
\* Mutant: the length of the text is not checked.
InvalidMessageNoTextLimit(p) ==
    \/ Falsy(p.username)
    \/ Falsy(p.text)
    \/ p.username.len > MaxUsername

InvalidMessage(p) ==
    \/ Falsy(p.username)
    \/ Falsy(p.text)
    \/ p.username.len > MaxUsername
    \/ p.text.len > MaxText

----------------------------------------------------------------------------
(* Database calls in flight.  A request is the chain ensureSchema ->       *)
(* statement -> callback of the statement.  The callback given to          *)
(* ensureSchema takes no argument and touches no shared state: it only     *)
(* evaluates the statement's parameters and issues the statement, whether  *)
(* or not the schema check failed.  The model therefore runs it in the     *)
(* same step as the statement's callback.  The source does not order the   *)
(* completions of different requests.                                      *)

Request(kind, s, data) == [kind |-> kind, sock |-> s, data |-> data]
Add(q, r) == q (+) SetToBag({r})
Remove(q, r) == q (-) SetToBag({r})
InFlight(q) == BagCardinality(q)
\* Rows inserted since startup, and inserts still in flight.
Base(rows) == IF Len(rows) >= SeedRows THEN SeedRows ELSE 0
Inserting(q) == LET ins == {r \in BagToSet(q) : r.kind \in {"message", "ai"}}
                    count[S \in SUBSET ins] ==
                        IF S = {} THEN 0
                        ELSE LET r == CHOOSE x \in S : TRUE
                             IN  CopiesIn(r, q) + count[S \ {r}]
                IN  count[ins]
CanInsert == /\ InFlight(pending) < MaxPending
             /\ (Len(db) - Base(db)) + Inserting(pending) < MaxInserts
\* Mutant: a disconnect cancels the requests of its socket.
OrphanCancelled(q, s) ==
    LET mine == {r \in BagToSet(q) : r.sock = s}
    IN  [r \in BagToSet(q) \ mine |-> CopiesIn(r, q)]

\* The requests of a socket that disconnected keep running; what they emit
\* to that socket reaches nobody.
Orphaned(r, s) == IF r.sock = s THEN [r EXCEPT !.sock = "gone"] ELSE r
Orphan(q, s) == LET F(r) == Orphaned(r, s) IN BagOfAll(F, q)

\* ensureSchema issues its statement inside db.serialize: a serialized
\* statement waits in the driver's queue until the statements that are
\* executing have finished.  A statement that never finishes (a request of
\* kind "hung") therefore holds back every request that arrived after it.
Stalled(q) == \E r \in BagToSet(q) : r.kind = "hung"

----------------------------------------------------------------------------
(* Initial state: the server listens, nobody is connected.  The database   *)
(* file is new or holds the rows of earlier runs.                          *)

Start ==
    /\ sockets = [s \in Sessions |-> Closed]
    /\ connectedUsers = {}
    /\ typingUsers = {}
    /\ pending = EmptyBag
    /\ crashed = FALSE
    /\ last = Quiet
    /\ out = <<>>

\* An exception nobody catches ends the process: its connections close and
\* its memory is gone; the database file stays.
Crash(type, s, data) ==
    /\ crashed' = TRUE
    /\ sockets' = [t \in Sessions |-> Closed]
    /\ connectedUsers' = {}
    /\ typingUsers' = {}
    /\ pending' = EmptyBag
    /\ Record(Event(type, s, data, FALSE), <<>>)
    /\ UNCHANGED <<db, env>>

----------------------------------------------------------------------------
(* Socket event handlers.                                                  *)

\* startServer(): server.listen is called when initializeDatabase has
\* resolved, that is when the database file was opened and the callback of
\* CREATE TABLE IF NOT EXISTS got no error; when opening or creating fails,
\* the process exits with status 1.
StartServer(ok) ==
    /\ ~crashed
    /\ ~env.listening
    /\ env' = [env EXCEPT !.listening = ok]
    /\ crashed' = ~ok
    /\ Record(Event("startServer", "none", NoData, ok), <<>>)
    /\ UNCHANGED <<sockets, connectedUsers, typingUsers, db, pending>>

\* Mutant: connections are accepted before server.listen.
ConnectionBeforeListen(s) ==
    /\ ~crashed
    /\ ~sockets[s].open
    /\ sockets' = [sockets EXCEPT ![s] = Fresh]
    /\ Record(Event("connection", s, NoData, TRUE), <<>>)
    /\ UNCHANGED <<connectedUsers, typingUsers, db, pending, crashed, env>>

\* io.on('connection', ...): connections arrive once the server listens.
Connection(s) ==
    /\ ~crashed
    /\ env.listening
    /\ ~sockets[s].open
    /\ sockets' = [sockets EXCEPT ![s] = Fresh]
    /\ Record(Event("connection", s, NoData, TRUE), <<>>)
    /\ UNCHANGED <<connectedUsers, typingUsers, db, pending, crashed, env>>

\* Mutant: the join notice goes out with io.emit, the joiner included.
JoinEmissionsToAll(socks, s, u, connected) ==
    << Emit("userJoined", All(socks), [username |-> u]),
       Emit("userCount", All(socks), [count |-> Cardinality(connected)]) >>

\* Mutant: the count is read before the username is added.
JoinEmissionsCountBefore(socks, s, u, connected) ==
    << Emit("userJoined", Others(socks, s), [username |-> u]),
       Emit("userCount", All(socks), [count |-> Cardinality(connected \ {u})]) >>

\* Mutant: the count grows with every join, as a counter would.
JoinEmissionsCounted(socks, s, u, connected) ==
    << Emit("userJoined", Others(socks, s), [username |-> u]),
       Emit("userCount", All(socks), [count |-> Cardinality(connected) + 1]) >>

\* The emissions of socket.on('userJoined'), with the set as it is after
\* the handler's mutation.
JoinEmissions(socks, s, u, connected) ==
    << Emit("userJoined", Others(socks, s), [username |-> u]),
       Emit("userCount", All(socks), [count |-> Cardinality(connected)]) >>

\* Mutant: a join from a bound session first removes the old username.
UserJoinedLeavesOld(s, p) ==
    /\ ~crashed
    /\ sockets[s].open
    /\ IF ~p.defined
       THEN \/ Crash("userJoined", s, p)
            \/ /\ Record(Event("userJoined", s, p, FALSE), <<>>)
               /\ UNCHANGED <<sockets, connectedUsers, typingUsers, db, pending, crashed, env>>
       ELSE /\ connectedUsers' =
                  (connectedUsers \ {sockets[s].username}) \cup {p.username}
            /\ sockets' = [sockets EXCEPT ![s].username = p.username]
            /\ Record(Event("userJoined", s, p, TRUE),
                      JoinEmissions(sockets', s, p.username, connectedUsers'))
            /\ UNCHANGED <<typingUsers, db, pending, crashed, env>>

\* socket.on('userJoined', async (data) => ...).  Without a payload the
\* destructuring throws inside the async handler: the rejection is unhandled,
\* which ends the process or only warns, depending on the Node version.
UserJoined(s, p) ==
    /\ ~crashed
    /\ sockets[s].open
    /\ IF ~p.defined
       THEN \/ Crash("userJoined", s, p)
            \/ /\ Record(Event("userJoined", s, p, FALSE), <<>>)
               /\ UNCHANGED <<sockets, connectedUsers, typingUsers, db, pending, crashed, env>>
       ELSE /\ connectedUsers' = connectedUsers \cup {p.username}
            /\ sockets' = [sockets EXCEPT ![s].username = p.username]
            /\ Record(Event("userJoined", s, p, TRUE),
                      JoinEmissions(sockets', s, p.username, connectedUsers'))
            /\ UNCHANGED <<typingUsers, db, pending, crashed, env>>

\* How many rows the store held when a history request arrived: a history
\* variable (the code keeps no such count), noted when the reads are observed.
Arrival == IF "historyDone" \in observed THEN [rows |-> Len(db)] ELSE NoData

\* socket.on('getMessageHistory', ...): the read waits for ensureSchema.
GetMessageHistory(s) ==
    /\ ~crashed
    /\ sockets[s].open
    /\ InFlight(pending) < MaxPending
    /\ pending' = Add(pending, Request("history", s, Arrival))
    /\ Record(Event("getMessageHistory", s, NoData, TRUE), <<>>)
    /\ UNCHANGED <<sockets, connectedUsers, typingUsers, db, crashed, env>>

\* How many INSERTs were in flight when a message arrived: a history
\* variable (the code keeps no such count), noted when arrivals are observed.
Noted(p) == IF "arrival" \in observed THEN [rank |-> Inserting(pending)] @@ p ELSE p

\* socket.on('message', ...): destructuring and validation run inside the
\* try block; an accepted message waits for ensureSchema.
Message(s, p) ==
    /\ ~crashed
    /\ sockets[s].open
    /\ IF ~p.defined
       THEN /\ Record(Event("message", s, p, FALSE),
                      <<Emit("error", Only(sockets, s), [message |-> "Failed to send message"])>>)
            /\ UNCHANGED pending
       ELSE IF InvalidMessage(p)
       THEN /\ Record(Event("message", s, p, FALSE),
                      <<Emit("error", Only(sockets, s), [message |-> "Invalid message data"])>>)
            /\ UNCHANGED pending
       ELSE /\ CanInsert
            /\ pending' = Add(pending, Request("message", s, Noted(p)))
            /\ Record(Event("message", s, p, TRUE), <<>>)
    /\ UNCHANGED <<sockets, connectedUsers, typingUsers, db, crashed, env>>

\* Mutant: the typing set is not consulted.
StartsTypingAlways(u, typing) == ~Falsy(u)

\* if (username && !typingUsers.has(username))
StartsTyping(u, typing) == ~Falsy(u) /\ u \notin typing
\* if (username && typingUsers.has(username))
StopsTyping(u, typing) == ~Falsy(u) /\ u \in typing
\* socket.broadcast.emit of a typing notice.
TypingRecipients(socks, s) == Others(socks, s)

\* socket.on('typing', ...).  Without a payload the destructuring throws
\* in a synchronous handler.
Typing(s, p) ==
    /\ ~crashed
    /\ sockets[s].open
    /\ IF ~p.defined THEN Crash("typing", s, p)
       ELSE /\ IF StartsTyping(p.username, typingUsers)
               THEN /\ typingUsers' = typingUsers \cup {p.username}
                    /\ Record(Event("typing", s, p, TRUE),
                              <<Emit("typing", TypingRecipients(sockets, s),
                                     [username |-> p.username])>>)
               ELSE /\ UNCHANGED typingUsers
                    /\ Record(Event("typing", s, p, TRUE), <<>>)
            /\ UNCHANGED <<sockets, connectedUsers, db, pending, crashed, env>>

\* socket.on('stopTyping', ...)
StopTyping(s, p) ==
    /\ ~crashed
    /\ sockets[s].open
    /\ IF ~p.defined THEN Crash("stopTyping", s, p)
       ELSE /\ IF StopsTyping(p.username, typingUsers)
               THEN /\ typingUsers' = typingUsers \ {p.username}
                    /\ Record(Event("stopTyping", s, p, TRUE),
                              <<Emit("stopTyping", TypingRecipients(sockets, s),
                                     [username |-> p.username])>>)
               ELSE /\ UNCHANGED typingUsers
                    /\ Record(Event("stopTyping", s, p, TRUE), <<>>)
            /\ UNCHANGED <<sockets, connectedUsers, db, pending, crashed, env>>

\* Mutant: the acknowledgment goes out with io.emit.
PingToAll(s) ==
    /\ ~crashed
    /\ sockets[s].open
    /\ Record(Event("ping", s, NoData, TRUE), <<Emit("pong", All(sockets), NoData)>>)
    /\ UNCHANGED <<sockets, connectedUsers, typingUsers, db, pending, crashed, env>>

\* socket.on('ping', ...)
Ping(s) ==
    /\ ~crashed
    /\ sockets[s].open
    /\ Record(Event("ping", s, NoData, TRUE), <<Emit("pong", Only(sockets, s), NoData)>>)
    /\ UNCHANGED <<sockets, connectedUsers, typingUsers, db, pending, crashed, env>>

\* Mutant: the count is taken before the username is removed.
LeaveEmissionsCountFirst(socks, s, u, connected) ==
    << Emit("userLeft", Others(socks, s), [username |-> u]),
       Emit("userCount", All(socks), [count |-> Cardinality(connected \cup {u})]) >>

\* The emissions of a leave, with the sockets and the set as they are after
\* the removal.
LeaveEmissions(socks, s, u, connected) ==
    << Emit("userLeft", Others(socks, s), [username |-> u]),
       Emit("userCount", All(socks), [count |-> Cardinality(connected)]) >>

\* socket.on('userLeft', ...): the username is the payload's.
UserLeft(s, p) ==
    /\ ~crashed
    /\ sockets[s].open
    /\ IF ~p.defined THEN Crash("userLeft", s, p)
       ELSE /\ IF ~Falsy(p.username)
               THEN /\ connectedUsers' = connectedUsers \ {p.username}
                    /\ typingUsers' = typingUsers \ {p.username}
                    /\ Record(Event("userLeft", s, p, TRUE),
                              LeaveEmissions(sockets, s, p.username, connectedUsers'))
               ELSE /\ UNCHANGED <<connectedUsers, typingUsers>>
                    /\ Record(Event("userLeft", s, p, TRUE), <<>>)
            /\ UNCHANGED <<sockets, db, pending, crashed, env>>

\* Mutant: the disconnect handler forgets the delete.
WithoutNothing(set, u) == set

\* delete(socket.username) of the disconnect handler.
Without(set, u) == set \ {u}

\* Mutant: the cleanup runs whether or not a username is bound.
DisconnectAlwaysCleans(s) ==
    /\ ~crashed
    /\ sockets[s].open
    /\ sockets' = [sockets EXCEPT ![s] = Closed]
    /\ pending' = Orphan(pending, s)
    /\ connectedUsers' = Without(connectedUsers, sockets[s].username)
    /\ typingUsers' = Without(typingUsers, sockets[s].username)
    /\ Record(Event("disconnect", s, Named(sockets[s].username), TRUE),
              LeaveEmissions(sockets', s, sockets[s].username, connectedUsers'))
    /\ UNCHANGED <<db, crashed, env>>

\* socket.on('disconnect', ...): the socket has left the namespace when the
\* handler runs, so it receives nothing of what the handler emits.
Disconnect(s) ==
    /\ ~crashed
    /\ sockets[s].open
    /\ sockets' = [sockets EXCEPT ![s] = Closed]
    /\ pending' = Orphan(pending, s)
    /\ IF ~Falsy(sockets[s].username)
       THEN /\ connectedUsers' = Without(connectedUsers, sockets[s].username)
            /\ typingUsers' = Without(typingUsers, sockets[s].username)
            /\ Record(Event("disconnect", s, Named(sockets[s].username), TRUE),
                      LeaveEmissions(sockets', s, sockets[s].username, connectedUsers'))
       ELSE /\ UNCHANGED <<connectedUsers, typingUsers>>
            /\ Record(Event("disconnect", s, Named(sockets[s].username), TRUE), <<>>)
    /\ UNCHANGED <<db, crashed, env>>

----------------------------------------------------------------------------
(* Completion callbacks of the database calls.                             *)

\* What socket.io sends for `timestamp: new Date(timestamp)`: the Date's
\* JSON form, its ISO string.
ToJSON(d) == ToISOString(d)

\* Mutant: the row of a message takes the id the client put in its payload.
InsertedRowsClientId(rows, r) ==
    IF r.kind = "message"
    THEN Append(rows, [id |-> r.data.id, username |-> r.data.username, text |-> r.data.text,
                       timestamp |-> ToISOString(NewDate(r.data.timestamp))])
    ELSE Insert(rows, r.data.username, r.data.text, ToISOString(NewDate(r.data.timestamp)))

\* Mutant: the id of a message's row follows the order of arrival.
InsertedRowsByArrival(rows, r) ==
    IF r.kind = "message"
    THEN Append(rows, [id |-> r.data.rank + 1, username |-> r.data.username,
                       text |-> r.data.text,
                       timestamp |-> ToISOString(NewDate(r.data.timestamp))])
    ELSE Insert(rows, r.data.username, r.data.text, ToISOString(NewDate(r.data.timestamp)))

\* The row a request inserts: [username, text, new Date(timestamp).toISOString()].
InsertedRows(rows, r) ==
    Insert(rows, r.data.username, r.data.text, ToISOString(NewDate(r.data.timestamp)))

\* io.emit('message', {id: this.lastID, username, text, timestamp: new Date(timestamp)})
MessageBroadcast(socks, rows, p) ==
    << Emit("message", All(socks),
            [id |-> MaxId(rows), username |-> p.username, text |-> p.text,
             timestamp |-> ToJSON(NewDate(p.timestamp))]) >>

\* Mutant: the broadcast does not wait for the outcome of the INSERT.
InsertEmissionsUnconditional(socks, rows, r, ok) ==
    IF r.kind # "message" THEN <<>> ELSE MessageBroadcast(socks, rows, r.data)

\* Mutant: the broadcast uses socket.broadcast.emit and skips the sender.
InsertEmissionsToOthers(socks, rows, r, ok) ==
    IF r.kind # "message" THEN <<>>
    ELSE IF ok THEN << [MessageBroadcast(socks, rows, r.data)[1]
                          EXCEPT !.to = Others(socks, r.sock)] >>
    ELSE <<Emit("error", Only(socks, r.sock), [message |-> "Failed to send message"])>>

\* Mutant: a failed INSERT of an AI reply answers the HTTP request with an
\* error.
InsertEmissionsAiError(socks, rows, r, ok) ==
    IF r.kind # "message"
    THEN IF ok THEN <<>>
         ELSE <<Emit("response", {}, [status |-> 500, field |-> "error",
                                      text |-> Str("Failed to get AI reply", 22)])>>
    ELSE IF ok THEN MessageBroadcast(socks, rows, r.data)
    ELSE <<Emit("error", Only(socks, r.sock), [message |-> "Failed to send message"])>>

\* What the callback of the INSERT emits: the broadcast, or the error to
\* the sender.
InsertEmissions(socks, rows, r, ok) ==
    IF r.kind # "message" THEN <<>>
    ELSE IF ok THEN MessageBroadcast(socks, rows, r.data)
    ELSE <<Emit("error", Only(socks, r.sock), [message |-> "Failed to send message"])>>

\* The INSERT of a message: the parameters are evaluated first, and
\* new Date(timestamp).toISOString() throws a RangeError on an invalid date,
\* in a callback of the database driver and outside every try block.  Then
\* the callback of db.run runs, with or without an error.
InsertDone(r, ok) ==
    /\ ~crashed
    /\ BagIn(r, pending)
    /\ r.kind = "message"
    /\ ~Stalled(pending)
    /\ IF NewDate(r.data.timestamp) = NaN
       THEN Crash("insertDone", r.sock, r.data)
       ELSE /\ db' = IF ok THEN InsertedRows(db, r) ELSE db
            /\ Record(Event("insertDone", r.sock, r.data, ok),
                      InsertEmissions(sockets, db', r, ok))
            /\ pending' = Remove(pending, r)
            /\ UNCHANGED <<sockets, connectedUsers, typingUsers, crashed, env>>

\* The INSERT of a message is issued and db.run never calls back.  The step
\* is taken with nothing else in flight, so that every other request arrives
\* after it.
InsertHangs(r) ==
    /\ ~crashed
    /\ BagIn(r, pending)
    /\ r.kind = "message"
    /\ InFlight(pending) = 1
    /\ NewDate(r.data.timestamp) # NaN
    /\ pending' = SetToBag({[r EXCEPT !.kind = "hung"]})
    /\ Record(Event("insertHangs", r.sock, r.data, TRUE), <<>>)
    /\ UNCHANGED <<sockets, connectedUsers, typingUsers, db, crashed, env>>

\* The INSERT of an AI reply, with the server's clock as its timestamp; its
\* callback only logs an error.
AiInsertDone(r, ok) ==
    /\ ~crashed
    /\ BagIn(r, pending)
    /\ r.kind = "ai"
    /\ ~Stalled(pending)
    /\ \E t \in Instants :
          LET q == [r EXCEPT !.data.timestamp = Iso(t)] IN
          /\ db' = IF ok THEN InsertedRows(db, q) ELSE db
          /\ Record(Event("aiInsertDone", q.sock, q.data, ok),
                    InsertEmissions(sockets, db', q, ok))
    /\ pending' = Remove(pending, r)
    /\ UNCHANGED <<sockets, connectedUsers, typingUsers, crashed, env>>

\* Mutant: the history goes out with io.emit.
HistoryRecipientsAll(socks, s) == All(socks)

\* socket.emit of the history read: to the requesting socket.
HistoryRecipients(socks, s) == Only(socks, s)

\* The history read and the callback of db.all('SELECT ... LIMIT 20').
HistoryDone(r, ok) ==
    /\ ~crashed
    /\ BagIn(r, pending)
    /\ r.kind = "history"
    /\ ~Stalled(pending)
    /\ IF ok
       THEN \E tie \in TieOrders :
               Record(Event("historyDone", r.sock, r.data, TRUE),
                      <<Emit("messageHistory", HistoryRecipients(sockets, r.sock),
                             [rows |-> History(db, tie)])>>)
       ELSE Record(Event("historyDone", r.sock, r.data, FALSE),
                   <<Emit("error", HistoryRecipients(sockets, r.sock),
                          [message |-> "Failed to load message history"])>>)
    /\ pending' = Remove(pending, r)
    /\ UNCHANGED <<sockets, connectedUsers, typingUsers, db, crashed, env>>

----------------------------------------------------------------------------
(* POST /api/ai-chat.                                                      *)

AI == Str("AI", 2)
Prompt == Str("prompt", 6)
\* A prompt that is not a string: the number 42.
NotAString == [s |-> "42", len |-> 2, type |-> "number"]
ReplyText == Str("reply", 300)
\* The replies of the demo fallback: the echo of a prompt, and the greeting.
DemoReply == Str("Demo AI", 30)
DemoHello == Str("Demo AI: Hello!", 41)
\* Request bodies: a prompt, none, or one that is not a string.
Bodies == { [prompt |-> Prompt], [prompt |-> Undefined], [prompt |-> NotAString] }
\* What the provider call does: it returns text, returns nothing, or throws;
\* or the client library offers neither API, or its constructor throws.
Upstream == {"reply", "empty", "throws", "unsupported", "broken"}

\* typeof prompt === 'string'
IsString(x) == "type" \notin DOMAIN x

\* Mutant: the type of the prompt is not checked.
ValidPromptAnyType(x) == ~Falsy(x)

\* The negation of: !prompt || typeof prompt !== 'string'
ValidPrompt(x) == ~Falsy(x) /\ IsString(x)

Response(status, field, text) ==
    <<Emit("response", {}, [status |-> status, field |-> field, text |-> text])>>

\* Mutant: the reply is stored without a username.
AiRequestAnonymous(text) ==
    Request("ai", "http", [username |-> Undefined, text |-> text, timestamp |-> Iso(0)])

\* The INSERT of ['AI', replyText, new Date().toISOString()]; the clock is
\* read when the statement is issued (see AiInsertDone).
AiRequest(text) ==
    Request("ai", "http", [username |-> AI, text |-> text, timestamp |-> Iso(0)])

\* app.post('/api/ai-chat', ...), with the body of the request and what the
\* provider does as its inputs.
AiChat(body, up) ==
    /\ ~crashed
    /\ env.listening
    /\ LET e == Event("aiChat", "http", [up |-> up] @@ body, TRUE) IN
       IF ~env.apiKey
       THEN /\ Record(e, Response(200, "reply",
                                 IF ValidPrompt(body.prompt) THEN DemoReply ELSE DemoHello))
            /\ UNCHANGED pending
       ELSE IF ~env.openai
       THEN /\ Record(e, Response(400, "error", Str("openai package not installed", 28)))
            /\ UNCHANGED pending
       ELSE IF ~ValidPrompt(body.prompt)
       THEN /\ Record(e, Response(400, "error", Str("Invalid prompt", 14)))
            /\ UNCHANGED pending
       ELSE IF up = "broken"
       THEN /\ Record(e, Response(500, "error", Str("Failed to get AI reply", 22)))
            /\ UNCHANGED pending
       ELSE IF up = "unsupported"
       THEN /\ Record(e, Response(500, "error", Str("unsupported", 11)))
            /\ UNCHANGED pending
       ELSE IF up = "throws"
       THEN /\ Record(e, Response(502, "error", Str("AI provider error", 17)))
            /\ UNCHANGED pending
       ELSE IF up = "empty"
       THEN /\ Record(e, Response(502, "error", Str("AI provider returned empty response", 35)))
            /\ UNCHANGED pending
       ELSE /\ CanInsert
            /\ pending' = Add(pending, AiRequest(ReplyText))
            /\ Record(e, Response(200, "reply", ReplyText))
    /\ UNCHANGED <<sockets, connectedUsers, typingUsers, db, crashed, env>>

----------------------------------------------------------------------------

(* The next-state relation over given sets of payloads.  Every           *)
(* specification below runs every handler and callback; each draws the     *)
(* full set of payloads for the events it studies and a basic one for the  *)
(* others.                                                                 *)
NextWith(joins, names, messages) ==
    \/ \E s \in Sessions : Connection(s)
    \/ \E s \in Sessions, p \in joins : UserJoined(s, p)
    \/ \E s \in Sessions : GetMessageHistory(s)
    \/ \E s \in Sessions, p \in messages : Message(s, p)
    \/ \E s \in Sessions, p \in names : Typing(s, p)
    \/ \E s \in Sessions, p \in names : StopTyping(s, p)
    \/ \E s \in Sessions : Ping(s)
    \/ \E s \in Sessions, p \in names : UserLeft(s, p)
    \/ \E s \in Sessions : Disconnect(s)
    \/ \E r \in BagToSet(pending), ok \in BOOLEAN : InsertDone(r, ok)
    \/ \E r \in BagToSet(pending), ok \in BOOLEAN : AiInsertDone(r, ok)
    \/ \E r \in BagToSet(pending), ok \in BOOLEAN : HistoryDone(r, ok)
    \/ \E body \in Bodies, up \in Upstream : AiChat(body, up)

BasicJoins == { Named(Alice) }
BasicNames == { Named(Alice) }
BasicMessages == { Msg(Alice, Hi, Iso(SeedRows + 2)) }

Configured == [apiKey |-> TRUE, openai |-> TRUE, listening |-> TRUE]

\* The relay with all payloads and nothing recorded.
Next == NextWith(JoinPayloads, NamePayloads, MessagePayloads)
Init == Start /\ db \in {<<>>, SeedDb} /\ env = Configured /\ observed = {}
Spec == Init /\ [][Next]_vars

\* The `typing` and `stopTyping` handlers.
NextTyping == NextWith(BasicJoins, NamePayloads, BasicMessages)
InitTyping == Start /\ db = <<>> /\ env = Configured
                    /\ observed = {"typing", "stopTyping"}
SpecTyping == InitTyping /\ [][NextTyping]_vars

\* The `userJoined` and `disconnect` handlers.
NextPresence == NextWith(JoinPayloads, BasicNames, BasicMessages)
InitPresence == Start /\ db = <<>> /\ env = Configured
                      /\ observed = {"userJoined", "disconnect"}
SpecPresence == InitPresence /\ [][NextPresence]_vars

\* The `getMessageHistory` handler and the callback of its read, on a new
\* database and on one that holds the rows of earlier runs.
NextHistory == NextWith(BasicJoins, BasicNames, MessagePayloads)
InitHistory == Start /\ db \in {<<>>, SeedDb} /\ env = Configured
                     /\ observed = {"getMessageHistory", "historyDone"}
SpecHistory == InitHistory /\ [][NextHistory]_vars

\* The inserts of messages and of AI replies, on a new database and on one
\* that holds the rows of earlier runs; nothing is recorded.
NextStore == NextWith(BasicJoins, BasicNames, MessagePayloads)
InitStore == Start /\ db \in {<<>>, SeedDb} /\ env = Configured /\ observed = {}
SpecStore == InitStore /\ [][NextStore]_vars

\* The `message` handler and the callback of its INSERT, on a new database.
NextMessages == NextWith(BasicJoins, BasicNames, MessagePayloads)
InitMessages == Start /\ db = <<>> /\ env = Configured
                      /\ observed = {"message", "insertDone"}
SpecMessages == InitMessages /\ [][NextMessages]_vars


----------------------------------------------------------------------------
(* Claims about the `message` handler, under SpecMessages.                 *)

\* The observed step is the callback of the INSERT of the message that
\* session `sock` sent with payload `data`.
InsertCallback(ok) == last'.type = "insertDone" /\ last'.ok = ok /\ ~crashed'
Sender(socks, s) == {t \in Sessions : t = s /\ socks[t].open}
NewRow == db'[Len(db')]

\* C1: a `message` broadcast is emitted only by the callback of a successful
\* INSERT, in the step that adds the row it reports; when the INSERT fails,
\* the store is unchanged, the only emission is one `error` to the sender,
\* no `message` is emitted, and the request is gone, so none follows later.
C1_BroadcastOnlyAfterInsert ==
    [][ /\ \A i \in DOMAIN out' :
              out'[i].ev = "message" =>
                  /\ InsertCallback(TRUE)
                  /\ Len(db') = Len(db) + 1
                  /\ NewRow.id = out'[i].data.id
                  /\ NewRow.username = last'.data.username
                  /\ NewRow.text = last'.data.text
        /\ InsertCallback(FALSE) =>
              /\ db' = db
              /\ Len(out') = 1
              /\ out'[1].ev = "error"
              /\ out'[1].to = Sender(sockets, last'.sock)
              /\ LET req == Request("message", last'.sock, last'.data)
                 IN  CopiesIn(req, pending') = CopiesIn(req, pending) - 1
              /\ InFlight(pending') = InFlight(pending) - 1
      ]_vars

\* Witness of C1: an INSERT failed with two sessions connected, and exactly
\* its sender got the error.
C1_Witness ==
    /\ last.type = "insertDone" /\ ~last.ok /\ ~crashed
    /\ Cardinality(Open(sockets)) = 2
    /\ Len(out) = 1 /\ out[1].ev = "error" /\ out[1].to = {last.sock}

\* The payload is one the claim calls invalid.
Rejected(p) ==
    \/ p.username.len = 0
    \/ p.text.len = 0
    \/ p.username.len > 50
    \/ p.text.len > 255

\* C2: a `message` event with an empty username, an empty text, a username
\* longer than 50 or a text longer than 255 starts no insert, leaves the
\* store and every other part of the state unchanged, and emits exactly one
\* `error`, to the sender alone.
C2_InvalidMessageRejected ==
    [][ (last'.type = "message" /\ last'.data.defined /\ Rejected(last'.data)) =>
            /\ pending' = pending
            /\ db' = db
            /\ UNCHANGED <<sockets, connectedUsers, typingUsers, crashed>>
            /\ Len(out') = 1
            /\ out'[1].ev = "error"
            /\ out'[1].to = {last'.sock}
      ]_vars

\* Witness of C2: a text of 256 characters was rejected while another
\* session was connected.
C2_Witness ==
    /\ last.type = "message" /\ last.data.defined
    /\ last.data.text.len = 256
    /\ Cardinality(Open(sockets)) = 2
    /\ Len(out) = 1 /\ out[1].ev = "error" /\ out[1].to = {last.sock}

\* The one emission of a successful INSERT callback reaches every connected
\* session and carries the id of the new row, 1 on an empty store, and the
\* username and text of the payload.
BroadcastOfInsert ==
    /\ Len(out') = 1
    /\ out'[1].ev = "message"
    /\ out'[1].to = Open(sockets')
    /\ sockets' = sockets
    /\ Len(db') = Len(db) + 1
    /\ out'[1].data.id = NewRow.id
    /\ \A i \in DOMAIN db : db[i].id < out'[1].data.id
    /\ (db = <<>> => out'[1].data.id = 1)
    /\ out'[1].data.username = last'.data.username
    /\ out'[1].data.text = last'.data.text

\* C3 as stated: the broadcast carries the timestamp as the client sent it.
C3_BroadcastCarriesSentTimestamp ==
    [][ InsertCallback(TRUE) =>
            /\ BroadcastOfInsert
            /\ out'[1].data.timestamp = last'.data.timestamp
      ]_vars

\* C3, amended: for every valid `message` event whose INSERT succeeds, every
\* session connected at broadcast time, the sender included, receives one
\* `message` event with the id the store assigned (1 on an empty store), the
\* username and text of the payload, and the instant of the payload's
\* timestamp as an ISO string: the timestamp as sent when the client sent an
\* ISO string, its conversion when it sent a number.
C3_BroadcastCarriesInstant ==
    [][ InsertCallback(TRUE) =>
            /\ BroadcastOfInsert
            /\ out'[1].data.timestamp.kind = "iso"
            /\ out'[1].data.timestamp.t = last'.data.timestamp.t
            /\ (last'.data.timestamp.kind = "iso" =>
                    out'[1].data.timestamp = last'.data.timestamp)
      ]_vars

\* Witness of C3: a message at both length limits was broadcast to two
\* sessions, its sender among them.
C3_Witness ==
    /\ last.type = "insertDone" /\ last.ok /\ ~crashed
    /\ last.data.username.len = 50 /\ last.data.text.len = 255
    /\ Len(out) = 1 /\ out[1].ev = "message"
    /\ Cardinality(out[1].to) = 2 /\ last.sock \in out[1].to


----------------------------------------------------------------------------
(* Claims about the typing notices, under SpecTyping.                      *)

TypingNotice(ev, socks, s, u) ==
    << [ev |-> ev, to |-> Open(socks) \ {s}, data |-> [username |-> u]] >>

\* C4: a `typing` (`stopTyping`) event emits a notice exactly when it changes
\* the typing set, by adding (removing) its username, and the notice goes to
\* every connected session but the sender; an event for a username already in
\* (not in) the set emits nothing, so of two `typing` events for one username
\* in succession at most the first is broadcast.
C4_TypingBroadcastOnChange ==
    [][ /\ (last'.type = "typing" /\ ~crashed') =>
              LET u == last'.data.username IN
              /\ IF typingUsers' # typingUsers
                 THEN /\ typingUsers' = typingUsers \cup {u}
                      /\ out' = TypingNotice("typing", sockets, last'.sock, u)
                 ELSE out' = <<>>
              /\ (u \in typingUsers => out' = <<>>)
              /\ (u \notin typingUsers /\ u.len > 0 => out' # <<>>)
        /\ (last'.type = "stopTyping" /\ ~crashed') =>
              LET u == last'.data.username IN
              /\ IF typingUsers' # typingUsers
                 THEN /\ typingUsers' = typingUsers \ {u}
                      /\ out' = TypingNotice("stopTyping", sockets, last'.sock, u)
                 ELSE out' = <<>>
              /\ (u \notin typingUsers => out' = <<>>)
              /\ (u \in typingUsers => out' # <<>>)
        /\ (/\ last.type = "typing" /\ last'.type = "typing" /\ ~crashed'
            /\ last'.data.username = last.data.username) =>
              /\ out' = <<>>
              /\ Len(out) + Len(out') <= 1
      ]_vars

\* Witness of C4: a `typing` event for a username already typing was
\* suppressed while another session was connected.
C4_Witness ==
    /\ last.type = "typing" /\ ~crashed
    /\ last.data.username \in typingUsers
    /\ out = <<>>
    /\ Cardinality(Open(sockets)) = 2

----------------------------------------------------------------------------
(* Claims about joining and disconnecting, under SpecPresence.             *)

\* C5: when session s joins with username u, every other connected session
\* receives `userJoined{username: u}`, s does not, and every connected
\* session, s included, receives `userCount` with the size of the connected
\* set after u was added: 1 on an empty registry, 2 when a second, different
\* username joins.
C5_JoinNotices ==
    [][ (last'.type = "userJoined" /\ last'.ok) =>
            LET s == last'.sock
                u == last'.data.username
            IN  /\ connectedUsers' = connectedUsers \cup {u}
                /\ sockets'[s].username = u
                /\ Len(out') = 2
                /\ out'[1] = [ev |-> "userJoined", to |-> Open(sockets) \ {s},
                              data |-> [username |-> u]]
                /\ out'[2].ev = "userCount"
                /\ out'[2].to = Open(sockets) /\ s \in out'[2].to
                /\ out'[2].data.count = Cardinality(connectedUsers \cup {u})
                /\ (connectedUsers = {} => out'[2].data.count = 1)
                /\ (Cardinality(connectedUsers) = 1 /\ u \notin connectedUsers
                        => out'[2].data.count = 2)
      ]_vars

\* Witness of C5: the second of two sessions joined under a different name.
C5_Witness ==
    /\ last.type = "userJoined" /\ last.ok
    /\ Len(out) = 2
    /\ Cardinality(out[1].to) = 1 /\ last.sock \notin out[1].to
    /\ Cardinality(out[2].to) = 2 /\ out[2].data.count = 2

\* C6: when a session with a bound username disconnects, that username is
\* removed from the connected set and from the typing set, every other
\* connected session receives `userLeft` with it, and every remaining session
\* receives `userCount` with the size of the connected set after the removal.
C6_DisconnectCleanup ==
    [][ (last'.type = "disconnect" /\ last'.sock \in Sessions
                                   /\ sockets[last'.sock].username.len > 0) =>
            LET s == last'.sock
                u == sockets[s].username
                rest == Open(sockets) \ {s}
            IN  /\ ~sockets'[s].open
                /\ connectedUsers' = connectedUsers \ {u}
                /\ typingUsers' = typingUsers \ {u}
                /\ Len(out') = 2
                /\ out'[1] = [ev |-> "userLeft", to |-> rest, data |-> [username |-> u]]
                /\ out'[2] = [ev |-> "userCount", to |-> rest,
                              data |-> [count |-> Cardinality(connectedUsers \ {u})]]
      ]_vars

\* Witness of C6: a session bound to a username disconnected while another
\* session was connected and a third username was still in the connected set.
C6_Witness ==
    /\ last.type = "disconnect"
    /\ last.data.username.len > 0
    /\ last.data.username \notin connectedUsers \cup typingUsers
    /\ Len(out) = 2 /\ Cardinality(out[1].to) = 1
    /\ out[2].data.count = 1

\* The two-client scenario: A joined as "alice", B as "bob", nobody else.
TwoClients ==
    /\ Open(sockets) = {"A", "B"}
    /\ sockets["A"].username = Alice
    /\ sockets["B"].username = Bob
    /\ connectedUsers = {Alice, Bob}
ADisconnects == TwoClients /\ last'.type = "disconnect" /\ last'.sock = "A"
BObserves(count) ==
    /\ \E i \in DOMAIN out' : /\ out'[i].ev = "userLeft" /\ "B" \in out'[i].to
                              /\ out'[i].data.username = Alice
    /\ \E i \in DOMAIN out' : /\ out'[i].ev = "userCount" /\ "B" \in out'[i].to
                              /\ out'[i].data.count = count

\* C7 as stated: B observes `userLeft{alice}` and a `userCount` of 0.
C7_CountZero == [][ ADisconnects => BObserves(0) ]_vars

\* C7, amended: in the two-client scenario, when A disconnects without an
\* explicit leave, B observes `userLeft{username: "alice"}` and a `userCount`
\* whose count is 1: "bob" is still connected.
C7_CountOne == [][ ADisconnects => BObserves(1) ]_vars

\* Witness of C7: A has disconnected from the two-client scenario.
C7_Witness ==
    /\ last.type = "disconnect" /\ last.sock = "A" /\ last.data.username = Alice
    /\ Open(sockets) = {"B"} /\ sockets["B"].username = Bob
    /\ connectedUsers = {Bob}
    /\ Len(out) = 2 /\ out[2].to = {"B"}


----------------------------------------------------------------------------
(* Claims about the history read, under SpecHistory.                       *)

HistoryRead == last'.type = "historyDone" /\ last'.ok
Min(a, b) == IF a < b THEN a ELSE b
\* The last n rows inserted, oldest first.
LastInserted(rows, n) == SubSeq(rows, Len(rows) - n + 1, Len(rows))
DistinctTimestamps(rows) ==
    \A i, j \in DOMAIN rows : i # j => rows[i].timestamp # rows[j].timestamp

\* C8 as stated, for a read requested after the last insert completed, on a
\* store whose rows all carry different timestamps: the history is the
\* min(20, n) most recently inserted rows in insertion order, whatever
\* timestamps they carry.
C8_HistoryInInsertionOrder ==
    [][ (HistoryRead /\ last'.data.rows = Len(db) /\ DistinctTimestamps(db)) =>
            out'[1].data.rows = LastInserted(db, Min(20, Len(db)))
      ]_vars

\* C9: the history read delivers one `messageHistory` of at most 20 rows, or
\* one `error`, to the requesting session alone, whether or not that session
\* has joined, and nothing to the others; neither the request nor the read
\* changes the connected set, the typing set, a session's bound username or
\* the rows of the store.
C9_HistoryToRequesterOnly ==
    [][ /\ last'.type = "historyDone" =>
              /\ Len(out') = 1
              /\ out'[1].ev = (IF last'.ok THEN "messageHistory" ELSE "error")
              /\ out'[1].to = Sender(sockets, last'.sock)
              /\ (last'.ok => Len(out'[1].data.rows) <= 20)
              /\ (last'.ok => Len(out'[1].data.rows) = Min(20, Len(db)))
              /\ UNCHANGED <<sockets, connectedUsers, typingUsers, db>>
        /\ last'.type = "getMessageHistory" =>
              /\ out' = <<>>
              /\ UNCHANGED <<sockets, connectedUsers, typingUsers, db>>
      ]_vars

\* Witness of C9: a session that never joined got a history of 20 rows out of
\* a store of more than 20 while another session was connected.
C9_Witness ==
    /\ last.type = "historyDone" /\ last.ok
    /\ Len(db) > 20
    /\ Cardinality(Open(sockets)) = 2
    /\ Len(out) = 1 /\ out[1].ev = "messageHistory" /\ out[1].to = {last.sock}
    /\ Len(out[1].data.rows) = 20
    /\ sockets[last.sock].username = Undefined

----------------------------------------------------------------------------
(* Claims about the store, under SpecStore.                                *)

IdsIncrease(rows) == \A i \in 1..(Len(rows) - 1) : rows[i].id < rows[i + 1].id

\* C10: the ids of the rows are unique and increase in insertion order; a
\* step that changes the table appends one row and leaves the other rows as
\* they are, so the count never decreases; the id of the new row is greater
\* than every id assigned before and is not read from the payload.
C10_IdsAssignedByStore ==
    /\ [](IdsIncrease(db))
    /\ [][ db' # db =>
              /\ Len(db') = Len(db) + 1
              /\ SubSeq(db', 1, Len(db)) = db
              /\ \A i \in DOMAIN db : db[i].id < db'[Len(db')].id
              /\ db'[Len(db')].id = Len(db) + 1
         ]_vars

\* Witness of C10: a client message and an AI reply were inserted into a
\* store that held rows before, the message after a row with the id its
\* payload names.
C10_Witness ==
    /\ Len(db) = SeedRows + 2
    /\ \E i, j \in (SeedRows + 1)..Len(db) :
          /\ db[i].username = AI
          /\ db[j].username # AI

----------------------------------------------------------------------------
(* Claims about the presence registry.                                     *)

\* C11, under SpecTyping: every username in the typing set is the bound
\* username of a connected session (a condition the claim needs: the session
\* that is typing under the name is connected and bound to it).
C11_TypingUsersAreBound ==
    \A u \in typingUsers : \E s \in Open(sockets) : sockets[s].username = u

\* The usernames bound to the connected sessions by a join.
Bound(socks) == {socks[s].username : s \in Open(socks)} \ {Undefined}

\* C12, under SpecPresence: the connected set is the set of the usernames
\* bound to the sessions that are connected and joined.
C12_ConnectedSetIsBoundSet == connectedUsers = Bound(sockets)

----------------------------------------------------------------------------
(* Claims about who may send, under SpecMessages.                          *)

\* C14: the INSERT of a `message` sent by a session that never joined adds
\* no row and broadcasts nothing.
C14_OnlyJoinedSessionsSend ==
    [][ (/\ last'.type = "insertDone" /\ last'.ok /\ ~crashed'
         /\ last'.sock \in Sessions
         /\ sockets[last'.sock].username = Undefined) =>
            /\ db' = db
            /\ \A i \in DOMAIN out' : out'[i].ev # "message"
      ]_vars

\* C19: the process never dies, whatever the clients send and whatever the
\* store answers.
C19_NeverCrashes == ~crashed

----------------------------------------------------------------------------
(* Claims about the explicit leave, under SpecLeave.                       *)

\* The `userLeft` and `disconnect` handlers.
NextLeave == NextWith(BasicJoins, BasicNames, BasicMessages)
InitLeave == Start /\ db = <<>> /\ env = Configured
                   /\ observed = {"userLeft", "disconnect"}
SpecLeave == InitLeave /\ [][NextLeave]_vars

\* C13, for the event that follows the leave at once: when a session has
\* left with `userLeft` and then disconnects, no session receives anything
\* from the disconnect, and neither set changes.
C13_LeaveIsTerminal ==
    [][ (/\ last.type = "userLeft" /\ out # <<>>
         /\ last'.type = "disconnect" /\ last'.sock = last.sock) =>
            /\ \A i \in DOMAIN out' : out'[i].to = {}
            /\ UNCHANGED <<connectedUsers, typingUsers>>
      ]_vars

----------------------------------------------------------------------------
(* Claims about the liveness probe, under SpecPing.                        *)

\* The `ping` handler.
NextPing == NextWith(BasicJoins, BasicNames, BasicMessages)
InitPing == Start /\ db = <<>> /\ env = Configured /\ observed = {"ping"}
SpecPing == InitPing /\ [][NextPing]_vars

\* C15: a `ping` emits exactly one `pong`, to the session that sent it and to
\* no other, and changes neither the connected set, the typing set, a bound
\* username, the store nor the database calls in flight; it is served
\* whether or not the session has joined.
C15_PingPong ==
    [][ last'.type = "ping" =>
            /\ out' = <<Emit("pong", {last'.sock}, NoData)>>
            /\ UNCHANGED <<sockets, connectedUsers, typingUsers, db, pending, crashed>>
      ]_vars

\* Witness of C15: a session that never joined was answered while another
\* session was connected and joined.
C15_Witness ==
    /\ last.type = "ping"
    /\ sockets[last.sock].username = Undefined
    /\ \E t \in Open(sockets) \ {last.sock} : sockets[t].username = Alice
    /\ Len(out) = 1 /\ out[1].ev = "pong" /\ out[1].to = {last.sock}

----------------------------------------------------------------------------
(* Claims about concurrent inserts, under SpecConcurrent.                  *)

\* The callbacks of the INSERTs, each message noting how many INSERTs were
\* in flight when it arrived.
NextConcurrent == NextWith(BasicJoins, BasicNames, MessagePayloads)
InitConcurrent == Start /\ db = <<>> /\ env = Configured
                        /\ observed = {"insertDone", "arrival"}
SpecConcurrent == InitConcurrent /\ [][NextConcurrent]_vars

----------------------------------------------------------------------------
(* Claims about a disconnect with an INSERT in flight, under SpecPresence. *)

\* The INSERTs of session s that are in flight.
OwnInserts(q, s) == {r \in BagToSet(q) : r.kind = "message" /\ r.sock = s}

\* C17: when a session with a bound username disconnects while an INSERT of
\* its own is in flight, the disconnect step itself removes the username from
\* both sets and emits `userLeft` to the others and `userCount` to all that
\* remain; the INSERT is neither awaited nor cancelled: it is still in
\* flight after the step and the store is as it was.
C17_CleanupDoesNotWait ==
    [][ (/\ last'.type = "disconnect" /\ last'.sock \in Sessions
         /\ sockets[last'.sock].username.len > 0
         /\ OwnInserts(pending, last'.sock) # {}) =>
            LET s == last'.sock
                u == sockets[s].username
                rest == Open(sockets) \ {s}
            IN  /\ ~sockets'[s].open
                /\ u \notin connectedUsers' /\ u \notin typingUsers'
                /\ connectedUsers' = connectedUsers \ {u}
                /\ typingUsers' = typingUsers \ {u}
                /\ out' = << Emit("userLeft", rest, [username |-> u]),
                             Emit("userCount", rest, [count |-> Cardinality(connectedUsers')]) >>
                /\ db' = db
                /\ InFlight(pending') = InFlight(pending)
                /\ \A r \in OwnInserts(pending, s) :
                       CopiesIn([r EXCEPT !.sock = "gone"], pending') >= CopiesIn(r, pending)
      ]_vars

\* Witness of C17: a session bound to a username has disconnected, another
\* session got both notices, and an INSERT of a session that has gone is
\* still in flight with the store still empty.
C17_Witness ==
    /\ last.type = "disconnect" /\ last.data.username.len > 0
    /\ Len(out) = 2 /\ Cardinality(out[1].to) = 1 /\ out[2].to = out[1].to
    /\ db = <<>>
    /\ \E r \in BagToSet(pending) : r.kind = "message" /\ r.sock = "gone"

----------------------------------------------------------------------------
(* Claims about an INSERT that never completes, under SpecHung.            *)

\* The relay with a store whose INSERT may hang.
NextHung ==
    \/ NextWith(BasicJoins, BasicNames, BasicMessages)
    \/ \E r \in BagToSet(pending) : InsertHangs(r)
InitHung == Start /\ db = <<>> /\ env = Configured /\ observed = {}
SpecHung == InitHung /\ [][NextHung]_vars

\* The database call of request r can complete and run its callback.
Answerable(r) ==
    ENABLED (\E ok \in BOOLEAN :
                \/ InsertDone(r, ok) \/ AiInsertDone(r, ok) \/ HistoryDone(r, ok))

\* C18, for the events that reach the store: whatever INSERT hangs, every
\* other request in flight (a history read, another INSERT) can complete and
\* be answered.
C18_OthersStillServed ==
    \A r \in BagToSet(pending) : r.kind # "hung" => Answerable(r)

----------------------------------------------------------------------------
(* Claims about startup, under SpecStartup.                                *)

\* The process from its start: the store is initialised, or fails to be,
\* before anything else.
NextStartup ==
    \/ \E ok \in BOOLEAN : StartServer(ok)
    \/ NextWith(BasicJoins, BasicNames, BasicMessages)
InitStartup == Start /\ db = <<>> /\ env = [Configured EXCEPT !.listening = FALSE]
                     /\ observed = {"startServer", "connection", "aiChat"}
SpecStartup == InitStartup /\ [][NextStartup]_vars

\* C20: while the server does not listen, no connection is open, no HTTP
\* request or client event was served and no database call is in flight; it
\* starts to listen only in the step in which the initialisation of the
\* store succeeded; when the initialisation fails the process ends without
\* listening, and from then on nothing happens.
C20_ListensAfterStoreInit ==
    /\ [](~env.listening =>
              /\ Open(sockets) = {} /\ pending = EmptyBag
              /\ connectedUsers = {} /\ typingUsers = {} /\ db = <<>>
              /\ last.type \in {"other", "startServer"} /\ out = <<>>)
    /\ [][ /\ (~env.listening /\ env'.listening) =>
                  (last'.type = "startServer" /\ last'.ok /\ ~crashed')
           /\ (last'.type = "startServer" /\ ~last'.ok) =>
                  (crashed' /\ ~env'.listening)
           /\ (crashed /\ ~env.listening) => UNCHANGED vars
         ]_vars

\* Witness of C20: the initialisation succeeded and an HTTP request was
\* served while a connection was open.
C20_Witness ==
    /\ env.listening /\ ~crashed
    /\ last.type = "aiChat"
    /\ Open(sockets) # {}

----------------------------------------------------------------------------
(* Claims about the stored records, under SpecStore.                       *)

\* C21: every row of the store has a username of 1 to 50 characters and a
\* text of 1 to 255 characters, whether a `message` event or an AI reply
\* inserted it.
C21_RecordsAreValid ==
    \A i \in DOMAIN db :
        /\ db[i].username.len >= 1 /\ db[i].username.len <= 50
        /\ db[i].text.len >= 1 /\ db[i].text.len <= 255

----------------------------------------------------------------------------
(* Claims about POST /api/ai-chat, under SpecAi.                           *)

\* The environments of the process: with or without OPENAI_API_KEY, with or
\* without the openai package.
Environments == {[apiKey |-> k, openai |-> o, listening |-> TRUE] : k, o \in BOOLEAN}

\* The AI endpoint and the callback of its INSERT, in every environment.
NextAi == NextWith(BasicJoins, BasicNames, BasicMessages)
InitAi == Start /\ db = <<>> /\ env \in Environments
                /\ observed = {"aiChat", "aiInsertDone"}
SpecAi == InitAi /\ [][NextAi]_vars

\* The HTTP response of the observed request.
Answer == out'[1].data
\* The observed request got a reply from the provider.
Replied ==
    /\ last'.type = "aiChat"
    /\ env.apiKey /\ env.openai /\ ValidPrompt(last'.data.prompt)
    /\ last'.data.up = "reply"

\* C22: a request whose provider call produced a reply is answered with
\* status 200 and the reply in the step that issues the INSERT, before the
\* INSERT has an outcome; the callback of the INSERT, on success and on
\* failure alike, sends nothing, and a failure leaves the store unchanged and
\* the process running.
C22_ReplyDespiteInsertFailure ==
    [][ /\ Replied =>
              /\ Len(out') = 1
              /\ Answer = [status |-> 200, field |-> "reply", text |-> ReplyText]
              /\ InFlight(pending') = InFlight(pending) + 1
        /\ last'.type = "aiInsertDone" =>
              /\ out' = <<>>
              /\ ~crashed'
              /\ (~last'.ok => db' = db)
              /\ (last'.ok => Len(db') = Len(db) + 1)
      ]_vars

\* Witness of C22: the INSERT of an AI reply failed and left the store empty.
C22_Witness ==
    /\ last.type = "aiInsertDone" /\ ~last.ok
    /\ last.data.username = AI
    /\ db = <<>> /\ out = <<>> /\ ~crashed

\* The observed request was answered with status 200 and a reply.
Succeeded == last'.type = "aiChat" /\ Answer.status = 200 /\ Answer.field = "reply"
\* The step issues one INSERT of a row with username "AI" and the given text.
StoresReply(text) ==
    /\ InFlight(pending') = InFlight(pending) + 1
    /\ \E r \in BagToSet(pending') :
          /\ r.kind = "ai" /\ r.data.username = AI /\ r.data.text = text
          /\ CopiesIn(r, pending') = CopiesIn(r, pending) + 1

\* C23 as stated: every request answered with a reply issues one INSERT of
\* that reply under username "AI".
C23_EveryReplyIsStored == [][ Succeeded => StoresReply(Answer.text) ]_vars

\* C23, amended: with OPENAI_API_KEY set, every request answered with a reply
\* issues one INSERT of a row with username "AI" and the reply as its text;
\* without the key the reply of the demo fallback is returned and no INSERT
\* is issued.
C23_ProviderReplyIsStored ==
    [][ Succeeded =>
            IF env.apiKey THEN StoresReply(Answer.text) ELSE pending' = pending
      ]_vars

\* Witness of C23: a reply of the provider was returned and its INSERT is in
\* flight.
C23_Witness ==
    /\ last.type = "aiChat" /\ env.apiKey
    /\ Len(out) = 1 /\ out[1].data.status = 200 /\ out[1].data.field = "reply"
    /\ \E r \in BagToSet(pending) :
          r.kind = "ai" /\ r.data.username = AI /\ r.data.text = out[1].data.text

\* The prompt of the observed request is missing or is not a string.
BadPrompt == last'.data.prompt.len = 0 \/ "type" \in DOMAIN last'.data.prompt
\* The provider was called and failed: it threw, or returned no text.
UpstreamFailed == ~BadPrompt /\ env.openai /\ last'.data.up \in {"throws", "empty"}
\* The client library is unusable.
Unexpected == ~BadPrompt /\ env.openai /\ last'.data.up \in {"unsupported", "broken"}

\* C24 as stated: a missing or non-string prompt is answered with 400, a
\* failure of the provider with 502, and 500 is kept for the unexpected.
C24_StatusReflectsFailure ==
    [][ last'.type = "aiChat" =>
            /\ (BadPrompt => Answer.status = 400)
            /\ (Answer.status = 200 => ~BadPrompt)
            /\ (env.apiKey /\ UpstreamFailed => Answer.status = 502)
            /\ (Answer.status = 500 => Unexpected)
      ]_vars

\* C24, amended: with OPENAI_API_KEY set, a missing or non-string prompt is
\* answered with 400, as is every request when the openai package is
\* missing; a provider call that throws or returns no text with 502; 500 is
\* answered exactly when the client library is unusable, and 200 exactly
\* when the provider replied; every answer other than 200 carries `error`
\* and issues no INSERT.  Without the key every request, whatever its prompt,
\* is answered with 200 and a demo reply.
C24_StatusWithKey ==
    [][ last'.type = "aiChat" =>
            IF ~env.apiKey
            THEN /\ Answer.status = 200 /\ Answer.field = "reply"
                 /\ Answer.text = (IF BadPrompt THEN DemoHello ELSE DemoReply)
            ELSE /\ (BadPrompt => Answer.status = 400)
                 /\ (~env.openai => Answer.status = 400)
                 /\ (UpstreamFailed => Answer.status = 502)
                 /\ (Answer.status = 500 <=> Unexpected)
                 /\ (Answer.status = 200 <=>
                        (~BadPrompt /\ env.openai /\ last'.data.up = "reply"))
                 /\ Answer.status \in {200, 400, 500, 502}
                 /\ (Answer.status # 200 => Answer.field = "error" /\ pending' = pending)
      ]_vars

\* Witness of C24: with the key set and the package installed, a prompt that
\* is not a string was answered with 400.
C24_Witness ==
    /\ last.type = "aiChat" /\ env.apiKey /\ env.openai
    /\ last.data.prompt = NotAString
    /\ Len(out) = 1 /\ out[1].data.status = 400 /\ out[1].data.field = "error"

----------------------------------------------------------------------------
(* Claims about the registry operations, under SpecRegistry.               *)

\* Payloads that name one of two users.
TwoNames == { Named(Alice), Named(Bob) }

\* The five handlers that change the registry, with two usernames.
NextRegistry == NextWith(TwoNames, TwoNames, BasicMessages)
InitRegistry == Start /\ db = <<>> /\ env = Configured
                      /\ observed = {"userJoined", "userLeft", "disconnect",
                                      "typing", "stopTyping"}
SpecRegistry == InitRegistry /\ [][NextRegistry]_vars

\* C25: a join with a username already in the connected set leaves the set
\* and its size unchanged and still emits `userJoined` to the others and
\* `userCount`, with that size, to all; a leave of a username that is in
\* neither set leaves both sets unchanged, emits no `error` and does not end
\* the process.
C25_JoinAndLeaveIdempotent ==
    [][ /\ (/\ last'.type = "userJoined" /\ last'.ok
            /\ last'.data.username \in connectedUsers) =>
              /\ connectedUsers' = connectedUsers
              /\ out' = << Emit("userJoined", Open(sockets) \ {last'.sock},
                                 [username |-> last'.data.username]),
                           Emit("userCount", Open(sockets),
                                 [count |-> Cardinality(connectedUsers)]) >>
        /\ (/\ last'.type = "userLeft"
            /\ last'.data.username \notin connectedUsers \cup typingUsers) =>
              /\ UNCHANGED <<connectedUsers, typingUsers>>
              /\ ~crashed'
              /\ \A i \in DOMAIN out' : out'[i].ev # "error"
      ]_vars

\* Witness of C25: a second session joined under the name the first one
\* carries; the first was told, and the count stayed 1.
C25_Witness ==
    /\ last.type = "userJoined" /\ last.ok
    /\ Cardinality(Open(sockets)) = 2
    /\ \A t \in Sessions : sockets[t].username = last.data.username
    /\ connectedUsers = {last.data.username}
    /\ Len(out) = 2 /\ Cardinality(out[1].to) = 1 /\ out[2].data.count = 1

\* The kinds of event that change the registry.
RegistryEvents == {"userJoined", "userLeft", "disconnect", "typing", "stopTyping"}

\* C26: the step of a join, leave, disconnect, typing or stopTyping event
\* holds its mutation and all its emissions: every `userCount` it emits
\* carries the size of the connected set as the step leaves it, every other
\* emission names the username of the event, each set changes by that
\* username at most, and the step neither completes nor starts a database
\* call, whatever INSERTs are in flight.
C26_RegistryStepsAreAtomic ==
    [][ (last'.type \in RegistryEvents /\ ~crashed') =>
            LET u == last'.data.username IN
            /\ \A i \in DOMAIN out' :
                  IF out'[i].ev = "userCount"
                  THEN out'[i].data.count = Cardinality(connectedUsers')
                  ELSE out'[i].data.username = u
            /\ connectedUsers' \in {connectedUsers, connectedUsers \cup {u},
                                     connectedUsers \ {u}}
            /\ typingUsers' \in {typingUsers, typingUsers \cup {u}, typingUsers \ {u}}
            /\ db' = db
            /\ InFlight(pending') = InFlight(pending)
      ]_vars

\* Witness of C26: a `userCount` of 2 went to two sessions while an INSERT
\* was in flight.
C26_Witness ==
    /\ last.type \in RegistryEvents /\ ~crashed
    /\ \E r \in BagToSet(pending) : r.kind = "message"
    /\ \E i \in DOMAIN out :
          /\ out[i].ev = "userCount" /\ Cardinality(out[i].to) = 2
          /\ out[i].data.count = 2 /\ Cardinality(connectedUsers) = 2

\* C27: the disconnect of a session that never bound a username closes the
\* session, leaves the connected set and the typing set as they are and
\* emits nothing.
C27_UnboundDisconnectIsSilent ==
    [][ (/\ last'.type = "disconnect" /\ last'.sock \in Sessions
         /\ sockets[last'.sock].username = Undefined) =>
            /\ ~sockets'[last'.sock].open
            /\ UNCHANGED <<connectedUsers, typingUsers>>
            /\ out' = <<>>
      ]_vars

\* Witness of C27: a session without a username has disconnected while
\* another session was connected, joined and typing; both sets are intact.
C27_Witness ==
    /\ last.type = "disconnect" /\ last.data.username = Undefined
    /\ out = <<>>
    /\ \E t \in Open(sockets) :
          /\ sockets[t].username \in connectedUsers
          /\ sockets[t].username \in typingUsers

\* The username another connected session holds, when it is not the sender's.
HeldByAnother(s, u) ==
    \E t \in Open(sockets) \ {s} :
        sockets[t].username = u /\ sockets[s].username # u

\* C28: an explicit leave sent by a session removes and announces only the
\* username bound to that session: the username of a different connected
\* session stays in the connected set and in the typing set, and is not the
\* one named in `userLeft`.
C28_LeaveRemovesOnlyOwnName ==
    [][ (last'.type = "userLeft" /\ last'.sock \in Sessions) =>
            /\ \A u \in (connectedUsers \ connectedUsers')
                       \cup (typingUsers \ typingUsers') :
                   ~HeldByAnother(last'.sock, u)
            /\ \A i \in DOMAIN out' :
                   out'[i].ev = "userLeft" =>
                       ~HeldByAnother(last'.sock, out'[i].data.username)
      ]_vars

\* C30: in every reachable state the typing set is a subset of the
\* connected set.
C30_TypingSubsetOfConnected == typingUsers \subseteq connectedUsers

\* A join served for a session that already has a username bound.
Rejoins ==
    /\ last'.type = "userJoined" /\ last'.sock \in Sessions /\ last'.ok
    /\ ~Falsy(sockets[last'.sock].username)

\* C29: a second `userJoined` from a joined session is accepted: the new
\* username is bound and added to the connected set, `userJoined` goes to
\* the other sessions and `userCount` to all, and the old username is not
\* removed; the session's disconnect removes only the username bound then,
\* so the old one stays in the connected set.
C29_RejoinKeepsOldName ==
    [][ /\ Rejoins =>
             /\ sockets'[last'.sock].username = last'.data.username
             /\ connectedUsers' = connectedUsers \cup {last'.data.username}
             /\ sockets[last'.sock].username \in connectedUsers =>
                    sockets[last'.sock].username \in connectedUsers'
             /\ out' = << Emit("userJoined", Open(sockets) \ {last'.sock},
                               [username |-> last'.data.username]),
                          Emit("userCount", Open(sockets),
                               [count |-> Cardinality(connectedUsers')]) >>
        /\ (last'.type = "disconnect" /\ last'.sock \in Sessions) =>
             connectedUsers \ {sockets[last'.sock].username} \subseteq connectedUsers'
      ]_vars

\* Witness of C29: every session is closed, the last one disconnected while
\* bound to one username, and another username is still in the connected
\* set: the one that session had bound before it joined again.
C29_Witness ==
    /\ last.type = "disconnect" /\ ~Falsy(last.data.username)
    /\ Open(sockets) = {}
    /\ connectedUsers # {}
    /\ last.data.username \notin connectedUsers

----------------------------------------------------------------------------
(* Claims about the time between the INSERT and its callback, under        *)
(* SpecCommit.  The database driver runs a statement outside the event     *)
(* loop and queues the statement's callback when the statement is done:    *)
(* other handlers can run between the two.                                 *)

\* The INSERT of a message has been carried out, with this.lastID fixed;
\* its callback is queued.
InsertCommits(r) ==
    /\ ~crashed
    /\ BagIn(r, pending)
    /\ r.kind = "message"
    /\ ~Stalled(pending)
    /\ NewDate(r.data.timestamp) # NaN
    /\ db' = InsertedRows(db, r)
    /\ pending' = Add(Remove(pending, r),
                      [r EXCEPT !.kind = "committed",
                                !.data = [lastID |-> MaxId(db')] @@ r.data])
    /\ Record(Event("insertCommits", r.sock, r.data, TRUE), <<>>)
    /\ UNCHANGED <<sockets, connectedUsers, typingUsers, crashed, env>>

\* The callback of an INSERT that was carried out: function(err) with no
\* error, io.emit('message', {id: this.lastID, ...}).
CommitCalledBack(r) ==
    /\ ~crashed
    /\ BagIn(r, pending)
    /\ r.kind = "committed"
    /\ pending' = Remove(pending, r)
    /\ Record(Event("commitCalledBack", r.sock, r.data, TRUE),
              << [MessageBroadcast(sockets, db, r.data)[1]
                    EXCEPT !.data.id = r.data.lastID] >>)
    /\ UNCHANGED <<sockets, connectedUsers, typingUsers, db, crashed, env>>

\* Events with and without a payload.
NamedOrNot == { Named(Alice), NoPayload }
NextCommit ==
    \/ NextWith(BasicJoins, NamedOrNot, BasicMessages)
    \/ \E r \in BagToSet(pending) : InsertCommits(r)
    \/ \E r \in BagToSet(pending) : CommitCalledBack(r)
InitCommit == Start /\ db = <<>> /\ env = Configured
              /\ observed = {"insertDone", "commitCalledBack"}
SpecCommit == InitCommit /\ [][NextCommit]_vars

\* The inserts carried out whose callback has not run yet.
Committed(q) == {r \in BagToSet(q) : r.kind = "committed"}
\* How many `message` events of the given id a step emitted.
BroadcastsOf(emissions, id) ==
    Cardinality({i \in DOMAIN emissions :
                    emissions[i].ev = "message" /\ emissions[i].data.id = id})
\* The callback of the committed insert with this id leaves the queue.
CallbackLeaves(id) ==
    /\ \E r \in Committed(pending) : r.data.lastID = id
    /\ ~\E r \in Committed(pending') : r.data.lastID = id

\* C31: every chat message whose insert succeeds is broadcast as a
\* `message` event exactly once, whether or not its sender is still
\* connected: the callback of a successful insert never leaves the queue
\* without that one broadcast; every `message` event carries the id of a
\* stored record, and an id is broadcast only by the step that stores its
\* row or by the one callback of its insert.
C31_StoredIsBroadcastOnce ==
    [][ /\ \A id \in 1..MaxInserts :
              CallbackLeaves(id) => BroadcastsOf(out', id) = 1
        /\ (last'.type = "insertDone" /\ last'.ok) =>
              BroadcastsOf(out', MaxId(db')) = 1
        /\ \A i \in DOMAIN out' :
              out'[i].ev = "message" =>
                 /\ \E j \in DOMAIN db' : db'[j].id = out'[i].data.id
                 /\ \/ ~\E j \in DOMAIN db : db[j].id = out'[i].data.id
                    \/ CallbackLeaves(out'[i].data.id)
      ]_vars

----------------------------------------------------------------------------
(* GET /api/stats, under SpecStats: two queries, the second issued in the  *)
(* callback of the first.                                                  *)

StatsLimit == 10
\* SELECT * FROM messages ORDER BY timestamp DESC LIMIT 10
Recent(rows, tie) == OrderByTimestampDesc(rows, StatsLimit, tie)
\* res.json({totalMessages, connectedUsers, recentMessages})
StatsResponse(count, connected, rows) ==
    <<Emit("response", {}, [status |-> 200, totalMessages |-> count,
                            connectedUsers |-> Cardinality(connected),
                            recentMessages |-> rows])>>
StatsFailed ==
    <<Emit("response", {}, [status |-> 500, field |-> "error",
                            text |-> Str("Failed to fetch statistics", 26)])>>

\* app.get('/api/stats', ...): db.get('SELECT COUNT(*) ...') is issued.
Stats ==
    /\ ~crashed
    /\ env.listening
    /\ InFlight(pending) < MaxPending
    /\ pending' = Add(pending, Request("count", "http", NoData))
    /\ Record(Event("stats", "http", NoData, TRUE), <<>>)
    /\ UNCHANGED <<sockets, connectedUsers, typingUsers, db, crashed, env>>

\* The callback of the COUNT query keeps messageCount and issues the
\* second query.
Counted(r, rows) == [r EXCEPT !.kind = "recent", !.data = [count |-> Len(rows)]]

\* The callback of db.get: the error answer, or db.all('SELECT ... LIMIT 10').
CountDone(r, ok) ==
    /\ ~crashed
    /\ BagIn(r, pending)
    /\ r.kind = "count"
    /\ IF ok
       THEN /\ pending' = Add(Remove(pending, r), Counted(r, db))
            /\ Record(Event("countDone", r.sock, r.data, TRUE), <<>>)
       ELSE /\ pending' = Remove(pending, r)
            /\ Record(Event("countDone", r.sock, r.data, FALSE), StatsFailed)
    /\ UNCHANGED <<sockets, connectedUsers, typingUsers, db, crashed, env>>

\* The count a response reports.
TotalMessages(r) == r.data.count

\* The callback of db.all: the error answer, or the statistics.
RecentDone(r, ok) ==
    /\ ~crashed
    /\ BagIn(r, pending)
    /\ r.kind = "recent"
    /\ IF ok
       THEN \E tie \in TieOrders :
               Record(Event("recentDone", r.sock, r.data, TRUE),
                      StatsResponse(TotalMessages(r), connectedUsers, Recent(db, tie)))
       ELSE Record(Event("recentDone", r.sock, r.data, FALSE), StatsFailed)
    /\ pending' = Remove(pending, r)
    /\ UNCHANGED <<sockets, connectedUsers, typingUsers, db, crashed, env>>

NextStats ==
    \/ NextWith(BasicJoins, BasicNames, BasicMessages)
    \/ Stats
    \/ \E r \in BagToSet(pending), ok \in BOOLEAN : CountDone(r, ok)
    \/ \E r \in BagToSet(pending), ok \in BOOLEAN : RecentDone(r, ok)
InitStats == Start /\ db \in {<<>>, SeedDb} /\ env = Configured
             /\ observed = {"recentDone"}
SpecStats == InitStats /\ [][NextStats]_vars

\* The smaller of two numbers.
Smaller(a, b) == IF a < b THEN a ELSE b
\* A sequence of rows with the newest timestamp first.
NewestFirst(rows) ==
    \A i \in 1..(Len(rows) - 1) : rows[i].timestamp.t >= rows[i + 1].timestamp.t

\* C32: a statistics response is a consistent snapshot of the store:
\* recentMessages is newest-first and has at most min(10, totalMessages)
\* entries, totalMessages being the count reported in the same response.
C32_StatsAreASnapshot ==
    (last.type = "recentDone" /\ last.ok) =>
        /\ NewestFirst(out[1].data.recentMessages)
        /\ Len(out[1].data.recentMessages)
              <= Smaller(StatsLimit, out[1].data.totalMessages)

----------------------------------------------------------------------------
(* Reconnection, under SpecReconnect.  The client library connects again   *)
(* after a lost connection; the server sees a new socket.                  *)

\* What the client sends from its 'connect' handler: it only sets
\* isConnected.  `userJoined` is sent by joinChat alone, on a click or on
\* the Enter key.
ClientOnConnect == <<>>

NextReconnect == NextWith(BasicJoins, BasicNames, BasicMessages)
InitReconnect == Start /\ db = <<>> /\ env = Configured
                 /\ observed = {"disconnect", "connection"}
SpecReconnect == InitReconnect /\ [][NextReconnect]_vars

\* The usernames the client joins with on its own when it connects.
JoinedOnConnect ==
    {ClientOnConnect[i].data.username :
        i \in {j \in DOMAIN ClientOnConnect : ClientOnConnect[j].ev = "userJoined"}}

\* C33: when a session that had joined loses its connection and connects
\* again, its username is in the connected set again without a join by
\* hand: it is there when the new connection is made, or the client joins
\* with it on its own.
C33_ReconnectRejoins ==
    [][ (/\ last.type = "disconnect" /\ ~Falsy(last.data.username)
         /\ last'.type = "connection" /\ last'.sock = last.sock) =>
            last.data.username \in connectedUsers' \cup JoinedOnConnect
      ]_vars

====
